---- MODULE Spec2Model ----
(***************************************************************************)
(* The GNBSIM operator charm (src/src/charm.py) as a state machine.        *)
(*                                                                         *)
(* Text is a sequence of atoms (short pieces of text); None, text and      *)
(* integers are tagged records so that a configuration option can hold     *)
(* any of them, as self.model.config.get does.                             *)
(***************************************************************************)
EXTENDS Integers, Sequences, FiniteSets, TLC

VARIABLES
    config,        \* self.model.config: option name -> value
    can_connect,   \* what self._container.can_connect() answers
    storage,       \* whether BASE_CONFIG_PATH exists in the workload
    multus,        \* what self._kubernetes_multus.is_ready() answers
    file,          \* content of BASE_CONFIG_PATH/CONFIG_FILE_NAME, or NoFile
    routes,        \* the workload's routes, as <<destination, gateway>> pairs
    status,        \* self.unit.status
    deferred,      \* config-changed events deferred and not yet redelivered
    handler,       \* the handler that ran last
    log,           \* what the last handler run did, in order
    failures,      \* event.fail messages of the last handler run
    results,       \* event.set_results records of the last handler run
    repeated       \* the last handler run and the one before it were both
                   \* runs of _on_config_changed that went through to Active

vars == <<config, can_connect, storage, multus, file, routes, status,
          deferred, handler, log, failures, results, repeated>>

-----------------------------------------------------------------------------
(* Bounds of the model *)

\* a configuration differs from BaseConfig in at most this many options
MaxDeviations == 1
\* the simulation's output streams hold at most this many atoms
MaxWords == 2
\* at most this many deferred config-changed events wait for redelivery
MaxDeferred == 1

-----------------------------------------------------------------------------
(* Values *)

None == [t |-> "none"]
StrV(s) == [t |-> "str", s |-> s]
IntV(n) == [t |-> "int", n |-> n]

\* Python truthiness: `not v` holds for None, "" and 0
Falsy(v) ==
    \/ v.t = "none"
    \/ v.t = "str" /\ v.s = <<>>
    \/ v.t = "int" /\ v.n = 0

Digits == <<"0", "1", "2", "3", "4", "5", "6", "7", "8", "9">>

IsDigit(c) == \E i \in DOMAIN Digits : Digits[i] = c

DigitVal(c) == (CHOOSE i \in DOMAIN Digits : Digits[i] = c) - 1

RECURSIVE DecimalVal(_)
DecimalVal(s) ==
    IF s = <<>> THEN 0
    ELSE DecimalVal(SubSeq(s, 1, Len(s) - 1)) * 10 + DigitVal(s[Len(s)])

Returned(v) == [exc |-> "", val |-> v]
Raised(e) == [exc |-> e, val |-> None]

\* Python int(v): an int is itself, None raises TypeError, text is parsed as
\* an optionally signed decimal and raises ValueError otherwise
int(v) ==
    IF v.t = "int" THEN Returned(v)
    ELSE IF v.t = "none" THEN Raised("TypeError")
    ELSE LET signed == v.s # <<>> /\ v.s[1] \in {"-", "+"}
             digits == IF signed THEN Tail(v.s) ELSE v.s
         IN  IF digits # <<>> /\ \A i \in DOMAIN digits : IsDigit(digits[i])
             THEN Returned(IntV(IF signed /\ v.s[1] = "-"
                                THEN 0 - DecimalVal(digits)
                                ELSE DecimalVal(digits)))
             ELSE Raised("ValueError")

\* str.split(sep)[0]: the text before the first separator
RECURSIVE SplitFirst(_, _)
SplitFirst(s, sep) ==
    IF s = <<>> \/ s[1] = sep THEN <<>>
    ELSE <<s[1]>> \o SplitFirst(Tail(s), sep)

\* str.split(): the whitespace-separated words of a text
RECURSIVE SplitWords(_, _)
SplitWords(s, word) ==
    IF s = <<>> THEN (IF word = <<>> THEN <<>> ELSE <<word>>)
    ELSE IF s[1] = " "
         THEN (IF word = <<>> THEN <<>> ELSE <<word>>) \o SplitWords(Tail(s), <<>>)
         ELSE SplitWords(Tail(s), Append(word, s[1]))

split(s) == SplitWords(s, <<>>)

\* Contains with its arguments taken the wrong way round
ContainsReversed(haystack, needle) ==
    \E i \in 1..(Len(needle) - Len(haystack) + 1) :
        SubSeq(needle, i, i + Len(haystack) - 1) = haystack

\* needle in haystack, for texts
Contains(haystack, needle) ==
    \E i \in 1..(Len(haystack) - Len(needle) + 1) :
        SubSeq(haystack, i, i + Len(needle) - 1) = needle

-----------------------------------------------------------------------------
(* Program constants *)

BASE_CONFIG_PATH == <<"/etc/gnbsim">>
CONFIG_FILE_NAME == <<"gnb.conf">>
HTTP_SERVER_PORT == 6000
ConfigFilePath == BASE_CONFIG_PATH \o <<"/">> \o CONFIG_FILE_NAME
PassMarker == <<"Profile Status: ", "PASS">>

-----------------------------------------------------------------------------
(* Configuration *)

\* the options, in the order _get_invalid_configs checks them
ParamNames ==
    << "amf-hostname", "amf-port", "gnb-ip-address", "icmp-packet-destination",
       "imsi", "mcc", "mnc", "sd", "sst", "tac", "upf-gateway",
       "upf-ip-address", "usim-key", "usim-opc", "usim-sequence-number" >>

Params == {ParamNames[i] : i \in DOMAIN ParamNames}

IntParams == {"amf-port", "sst"}

\* a configuration in which every option is set and well formed
BaseConfig ==
    [p \in Params |->
        CASE p = "amf-hostname" -> StrV(<<"amf">>)
          [] p = "amf-port" -> IntV(38412)
          [] p = "gnb-ip-address" -> StrV(<<"192.168.251.5", "/", "24">>)
          [] p = "icmp-packet-destination" -> StrV(<<"8.8.8.8">>)
          [] p = "imsi" -> StrV(<<"208930100007487">>)
          [] p = "mcc" -> StrV(<<"208">>)
          [] p = "mnc" -> StrV(<<"93">>)
          [] p = "sd" -> StrV(<<"102030">>)
          [] p = "sst" -> IntV(1)
          [] p = "tac" -> StrV(<<"000001">>)
          [] p = "upf-gateway" -> StrV(<<"192.168.251.1">>)
          [] p = "upf-ip-address" -> StrV(<<"192.168.252.3">>)
          [] p = "usim-key" -> StrV(<<"5122250214c33e723a5dd523fc145fc0">>)
          [] p = "usim-opc" -> StrV(<<"981d464c7c52eb6e5036234984ad0bcf">>)
          [] OTHER -> StrV(<<"16f3b3f70fc2">>)]

\* the other values an operator may give an option
Deviations(p) ==
    {None, StrV(<<>>)}
    \cup (IF p \in IntParams
          THEN {StrV(<<"x">>), StrV(<<"0">>), IntV(0), StrV(<<"7">>)}
          ELSE {})
    \cup (IF p = "upf-gateway" THEN {StrV(<<"10.0.0.1">>)} ELSE {})
    \cup (IF p = "upf-ip-address" THEN {StrV(<<"10.9.9.9">>)} ELSE {})

AllDeviations == UNION {Deviations(p) : p \in Params}

Configs ==
    UNION { { [p \in Params |-> IF p \in S THEN f[p] ELSE BaseConfig[p]] :
                f \in {g \in [S -> AllDeviations] :
                          \A p \in S : g[p] \in Deviations(p)} } :
            S \in {T \in SUBSET Params : Cardinality(T) <= MaxDeviations} }

-----------------------------------------------------------------------------
(* Reading the configuration *)

_get_amf_hostname_from_config(cfg) == cfg["amf-hostname"]

_get_amf_port_from_config(cfg) == int(cfg["amf-port"])

_get_gnb_ip_address_from_config(cfg) == cfg["gnb-ip-address"]

_get_icmp_packet_destination_from_config(cfg) == cfg["icmp-packet-destination"]

_get_imsi_from_config(cfg) == cfg["imsi"]

_get_mcc_from_config(cfg) == cfg["mcc"]

_get_mnc_from_config(cfg) == cfg["mnc"]

_get_sd_from_config(cfg) == cfg["sd"]

_get_sst_from_config(cfg) == int(cfg["sst"])

_get_tac_from_config(cfg) == cfg["tac"]

_get_upf_gateway_from_config(cfg) == cfg["upf-gateway"]

_get_upf_ip_address_from_config(cfg) == cfg["upf-ip-address"]

_get_usim_key_from_config(cfg) == cfg["usim-key"]

_get_usim_opc_from_config(cfg) == cfg["usim-opc"]

_get_usim_sequence_number_from_config(cfg) == cfg["usim-sequence-number"]

\* AppendIfNot testing `value is None` where the code tests `not value`
AppendIfNone(invalid_configs, value, name) ==
    IF value.t = "none" THEN Append(invalid_configs, name) ELSE invalid_configs

\* invalid_configs.append(name) if not value
AppendIfNot(invalid_configs, value, name) ==
    IF Falsy(value) THEN Append(invalid_configs, name) ELSE invalid_configs

\* The list of invalid options, or the exception int() raised on the way:
\* the amf-port getter runs before the sst getter, and an exception of
\* either abandons the list.
_get_invalid_configs(cfg) ==
    LET port == _get_amf_port_from_config(cfg)
        sst == _get_sst_from_config(cfg)
        l1 == AppendIfNot(<<>>, _get_amf_hostname_from_config(cfg), "amf-hostname")
        l2 == AppendIfNot(l1, port.val, "amf-port")
        l3 == AppendIfNot(l2, _get_gnb_ip_address_from_config(cfg), "gnb-ip-address")
        l4 == AppendIfNot(l3, _get_icmp_packet_destination_from_config(cfg),
                          "icmp-packet-destination")
        l5 == AppendIfNot(l4, _get_imsi_from_config(cfg), "imsi")
        l6 == AppendIfNot(l5, _get_mcc_from_config(cfg), "mcc")
        l7 == AppendIfNot(l6, _get_mnc_from_config(cfg), "mnc")
        l8 == AppendIfNot(l7, _get_sd_from_config(cfg), "sd")
        l9 == AppendIfNot(l8, sst.val, "sst")
        l10 == AppendIfNot(l9, _get_tac_from_config(cfg), "tac")
        l11 == AppendIfNot(l10, _get_upf_gateway_from_config(cfg), "upf-gateway")
        l12 == AppendIfNot(l11, _get_upf_ip_address_from_config(cfg), "upf-ip-address")
        l13 == AppendIfNot(l12, _get_usim_key_from_config(cfg), "usim-key")
        l14 == AppendIfNot(l13, _get_usim_opc_from_config(cfg), "usim-opc")
        l15 == AppendIfNot(l14, _get_usim_sequence_number_from_config(cfg),
                           "usim-sequence-number")
    IN  IF port.exc # "" THEN Raised(port.exc)
        ELSE IF sst.exc # "" THEN Raised(sst.exc)
        ELSE Returned(l15)

-----------------------------------------------------------------------------
(* The configuration file and the route *)

\* str(self._http_server_ip_address): the unit's private address
_http_server_ip_address == <<"10.1.0.7">>

\* the template's parameters stand for the rendered text
_render_config_file(cfg) ==
    [ amf_hostname |-> _get_amf_hostname_from_config(cfg),
      amf_port |-> _get_amf_port_from_config(cfg).val,
      gnb_ip_address |-> StrV(SplitFirst(_get_gnb_ip_address_from_config(cfg).s, "/")),
      http_server_ip |-> StrV(_http_server_ip_address),
      http_server_port |-> IntV(HTTP_SERVER_PORT),
      icmp_packet_destination |-> _get_icmp_packet_destination_from_config(cfg),
      imsi |-> _get_imsi_from_config(cfg),
      mcc |-> _get_mcc_from_config(cfg),
      mnc |-> _get_mnc_from_config(cfg),
      sd |-> _get_sd_from_config(cfg),
      usim_sequence_number |-> _get_usim_sequence_number_from_config(cfg),
      sst |-> _get_sst_from_config(cfg).val,
      tac |-> _get_tac_from_config(cfg),
      upf_gateway |-> _get_upf_gateway_from_config(cfg),
      upf_ip_address |-> _get_upf_ip_address_from_config(cfg),
      usim_opc |-> _get_usim_opc_from_config(cfg),
      usim_key |-> _get_usim_key_from_config(cfg) ]

RECURSIVE DecimalText(_)
DecimalText(n) ==
    IF n < 10 THEN <<Digits[n + 1]>>
    ELSE Append(DecimalText(n \div 10), Digits[(n % 10) + 1])

\* str(v), as an f-string formats a value
str(v) ==
    IF v.t = "none" THEN <<"None">>
    ELSE IF v.t = "str" THEN v.s
    ELSE IF v.n < 0 THEN <<"-">> \o DecimalText(0 - v.n)
    ELSE DecimalText(v.n)

\* UpfRouteCommand with the gateway and the destination exchanged
UpfRouteCommandSwapped(cfg) ==
    split(<<"ip", " ", "route", " ", "replace", " ">>
          \o str(_get_upf_gateway_from_config(cfg))
          \o <<" ", "via", " ">>
          \o str(_get_upf_ip_address_from_config(cfg)))

\* the command _create_upf_route runs, as command.split() hands it to exec
UpfRouteCommand(cfg) ==
    split(<<"ip", " ", "route", " ", "replace", " ">>
          \o str(_get_upf_ip_address_from_config(cfg))
          \o <<" ", "via", " ">>
          \o str(_get_upf_gateway_from_config(cfg)))

\* the command the action runs, as command.split() hands it to exec
SimulationCommand ==
    split(<<"/gnbsim/bin/gnbsim", " ", "--cfg", " ">> \o ConfigFilePath)

\* what a successful `ip route replace D via G` does to the routes
RouteReplace(rt, command) ==
    IF /\ Len(command) = 6
       /\ SubSeq(command, 1, 3) = <<(<<"ip">>), (<<"route">>), (<<"replace">>)>>
       /\ command[5] = <<"via">>
    THEN {r \in rt : r[1] # command[4]} \cup {<<command[4], command[6]>>}
    ELSE rt

\* exists answering True for the storage path whether it is there or not
existsStorageAssumed(path, st, f) ==
    IF path = BASE_CONFIG_PATH THEN TRUE
    ELSE IF path = ConfigFilePath THEN st /\ f # <<>>
    ELSE FALSE

\* self._container.exists(path)
exists(path, st, f) ==
    IF path = BASE_CONFIG_PATH THEN st
    ELSE IF path = ConfigFilePath THEN st /\ f # <<>>
    ELSE FALSE

\* _config_file_is_written without the look at the workload
_config_file_is_written_unchecked(st, f) == TRUE

\* _config_file_is_written taking an Active unit for a written file
_config_file_is_written_if_active(st, f) ==
    status.name = "active" /\ st /\ f # <<>>

_config_file_is_written(st, f) ==
    IF ~exists(ConfigFilePath, st, f) THEN FALSE ELSE TRUE

-----------------------------------------------------------------------------
(* Statuses and the record of a handler run *)

UnknownStatus == [name |-> "unknown", message |-> <<>>]
ActiveStatus == [name |-> "active", message |-> <<>>]
BlockedStatus(message) == [name |-> "blocked", message |-> message]
WaitingStatus(message) == [name |-> "waiting", message |-> message]

\* one step of a handler run: a query with its answer, or an effect
Entry(op, arg, res) == [op |-> op, arg |-> arg, res |-> res]

BoolText(b) == IF b THEN "True" ELSE "False"

Outcome(st, lg, f, rt, exc) ==
    [status |-> st, log |-> lg, file |-> f, routes |-> rt, exc |-> exc]

\* self.unit.status = ..., as a step of the run
status_set(lg, name) == Append(lg, Entry("status", <<>>, name))

\* a run that forgets event.defer()
deferForgotten(lg) == lg

\* event.defer(), as a step of the run
defer(lg) == Append(lg, Entry("defer", <<>>, ""))

\* a run that catches what push and the route command raise and goes on
_on_config_changed_catching(cfg, cc, st, mr, f, rt, cur, pushExc, execExc) ==
    LET invalid_configs == _get_invalid_configs(cfg)
        q1 == <<Entry("_get_invalid_configs", <<>>,
                      IF invalid_configs.exc # "" THEN invalid_configs.exc
                      ELSE IF invalid_configs.val # <<>> THEN "invalid"
                      ELSE "valid")>>
        q2 == Append(q1, Entry("can_connect", <<>>, BoolText(cc)))
        q3 == Append(q2, Entry("exists", <<BASE_CONFIG_PATH>>,
                               BoolText(exists(BASE_CONFIG_PATH, st, f))))
        q4 == Append(q3, Entry("is_ready", <<>>, BoolText(mr)))
        content == _render_config_file(cfg)
        q5 == Append(q4, Entry("push", <<ConfigFilePath>>,
                               IF pushExc = "" THEN "ok" ELSE pushExc))
        command == UpfRouteCommand(cfg)
        q6 == Append(q5, Entry("exec", command,
                               IF execExc = "" THEN "ok" ELSE execExc))
    IN  IF invalid_configs.exc # ""
        THEN Outcome(cur, q1, f, rt, invalid_configs.exc)
        ELSE IF invalid_configs.val # <<>>
        THEN Outcome(BlockedStatus(<<"Configurations are invalid: ">>
                                   \o invalid_configs.val),
                     status_set(q1, "blocked"), f, rt, "")
        ELSE IF ~cc
        THEN Outcome(WaitingStatus(<<"Waiting for container to be ready">>),
                     defer(status_set(q2, "waiting")), f, rt, "")
        ELSE IF ~exists(BASE_CONFIG_PATH, st, f)
        THEN Outcome(WaitingStatus(<<"Waiting for storage to be attached">>),
                     defer(status_set(q3, "waiting")), f, rt, "")
        ELSE IF ~mr
        THEN Outcome(WaitingStatus(<<"Waiting for Multus to be ready">>),
                     status_set(q4, "waiting"), f, rt, "")
        ELSE IF pushExc # ""
        THEN Outcome(ActiveStatus, status_set(q6, "active"), f,
                     IF execExc = "" THEN RouteReplace(rt, command) ELSE rt, "")
        ELSE IF execExc # ""
        THEN Outcome(ActiveStatus, status_set(q6, "active"), <<content>>, rt, "")
        ELSE Outcome(ActiveStatus, status_set(q6, "active"),
                     <<content>>, RouteReplace(rt, command), "")

\* The whole of _on_config_changed on configuration cfg, with the container
\* answering cc, st, mr, the file and routes being f and rt and the status
\* cur; pushExc and execExc are the exceptions push and the route command
\* raise ("" for none).
_on_config_changed(cfg, cc, st, mr, f, rt, cur, pushExc, execExc) ==
    LET invalid_configs == _get_invalid_configs(cfg)
        q1 == <<Entry("_get_invalid_configs", <<>>,
                      IF invalid_configs.exc # "" THEN invalid_configs.exc
                      ELSE IF invalid_configs.val # <<>> THEN "invalid"
                      ELSE "valid")>>
        q2 == Append(q1, Entry("can_connect", <<>>, BoolText(cc)))
        q3 == Append(q2, Entry("exists", <<BASE_CONFIG_PATH>>,
                               BoolText(exists(BASE_CONFIG_PATH, st, f))))
        q4 == Append(q3, Entry("is_ready", <<>>, BoolText(mr)))
        content == _render_config_file(cfg)
        q5 == Append(q4, Entry("push", <<ConfigFilePath>>,
                               IF pushExc = "" THEN "ok" ELSE pushExc))
        command == UpfRouteCommand(cfg)
        q6 == Append(q5, Entry("exec", command,
                               IF execExc = "" THEN "ok" ELSE execExc))
    IN  IF invalid_configs.exc # ""
        THEN Outcome(cur, q1, f, rt, invalid_configs.exc)
        ELSE IF invalid_configs.val # <<>>
        THEN Outcome(BlockedStatus(<<"Configurations are invalid: ">>
                                   \o invalid_configs.val),
                     status_set(q1, "blocked"), f, rt, "")
        ELSE IF ~cc
        THEN Outcome(WaitingStatus(<<"Waiting for container to be ready">>),
                     defer(status_set(q2, "waiting")), f, rt, "")
        ELSE IF ~exists(BASE_CONFIG_PATH, st, f)
        THEN Outcome(WaitingStatus(<<"Waiting for storage to be attached">>),
                     defer(status_set(q3, "waiting")), f, rt, "")
        ELSE IF ~mr
        THEN Outcome(WaitingStatus(<<"Waiting for Multus to be ready">>),
                     status_set(q4, "waiting"), f, rt, "")
        ELSE IF pushExc # ""
        THEN Outcome(cur, q5, f, rt, pushExc)
        ELSE IF execExc # ""
        THEN Outcome(cur, q6, <<content>>, rt, execExc)
        ELSE Outcome(ActiveStatus, status_set(q6, "active"),
                     <<content>>, RouteReplace(rt, command), "")

\* the number of event.defer() calls of a run
Defers(lg) == Cardinality({i \in DOMAIN lg : lg[i].op = "defer"})

-----------------------------------------------------------------------------
(* The simulation *)

NoProcess == [kind |-> "none", stdout |-> None, stderr |-> None, err |-> <<>>]

Words == {"Profile Status: ", "PASS"}

Texts == UNION {[1..n -> Words] : n \in 0..MaxWords}

\* what process.wait_output() does: it returns the two streams, or raises
\* ExecError (carrying stderr) or ChangeError (carrying err)
ExecOutcomes ==
    { [kind |-> "output", stdout |-> StrV(o), stderr |-> e, err |-> <<>>] :
        o \in {<<>>, PassMarker},
        e \in {None} \cup {StrV(t) : t \in Texts} }
    \cup { [kind |-> "ExecError", stdout |-> None, stderr |-> e, err |-> <<>>] :
             e \in {None, StrV(<<"FAIL">>)} }
    \cup { [kind |-> "ChangeError", stdout |-> None, stderr |-> None,
            err |-> <<"timed out">>] }

Resolution(lg, fl, rs) == [log |-> lg, failures |-> fl, results |-> rs]

\* event.fail(message)
fail(lg, message) ==
    Resolution(Append(lg, Entry("fail", <<message>>, "")), <<message>>, <<>>)

\* process.wait_output(): the (stdout, stderr) pair, or the exception
_exec_command_in_workload(proc) ==
    IF proc.kind = "output" THEN Returned(<<proc.stdout, proc.stderr>>)
    ELSE Raised(proc.kind)

\* the except clauses without the one for ChangeError
ExceptClausesExecErrorOnly(lg, proc) ==
    IF proc.kind = "ExecError"
    THEN fail(lg, <<"Failed to execute simulation: ">> \o str(proc.stderr))
    ELSE Resolution(lg, <<>>, <<>>)

\* the except clauses of the action: an exception they do not name goes on
\* and the action ends with neither a result nor a failure
ExceptClauses(lg, proc) ==
    IF proc.kind = "ExecError"
    THEN fail(lg, <<"Failed to execute simulation: ">> \o str(proc.stderr))
    ELSE IF proc.kind = "ChangeError"
    THEN fail(lg, <<"Failed to execute simulation: ">> \o proc.err)
    ELSE Resolution(lg, <<>>, <<>>)

\* The whole of _on_start_simulation_action, with the container answering cc
\* and st, the file being f, and proc what the command does if it is run.
_on_start_simulation_action(cc, st, f, proc) ==
    LET q1 == <<Entry("can_connect", <<>>, BoolText(cc))>>
        q2 == Append(q1, Entry("exists", <<ConfigFilePath>>,
                               BoolText(exists(ConfigFilePath, st, f))))
        q3 == Append(q2, Entry("exec", SimulationCommand,
                               IF proc.kind = "output" THEN "ok" ELSE proc.kind))
        output == _exec_command_in_workload(proc)
    IN  IF ~cc
        THEN fail(q1, <<"Container is not ready">>)
        ELSE IF ~_config_file_is_written(st, f)
        THEN fail(q2, <<"Config file is not written">>)
        ELSE IF output.exc # ""
        THEN ExceptClauses(q3, proc)
        ELSE LET stderr == output.val[2]
             IN  IF Falsy(stderr)
                 THEN fail(q3, <<"No output in simulation">>)
                 ELSE LET result ==
                              [success |-> IF Contains(stderr.s, PassMarker)
                                           THEN "true" ELSE "false",
                               info |-> "run juju debug-log to get more information."]
                      IN  Resolution(Append(q3, Entry("set_results", <<>>,
                                                      result.success)),
                                     <<>>, <<result>>)

-----------------------------------------------------------------------------
(* The state machine *)

\* a configuration file an earlier unit left on the storage
StaleContent == _render_config_file(BaseConfig)

\* The charm is constructed anew for every event; the configuration, the
\* workload and the storage are whatever they are at that time.
Init ==
    /\ config \in Configs
    /\ can_connect \in BOOLEAN
    /\ storage \in BOOLEAN
    /\ multus \in BOOLEAN
    /\ file \in {<<>>, <<StaleContent>>}
    /\ routes = {}
    /\ status = UnknownStatus
    /\ deferred = 0
    /\ handler = "none"
    /\ log = <<>>
    /\ failures = <<>>
    /\ results = <<>>
    /\ repeated = FALSE

\* the run recorded in lg wrote the file, replaced the route and set Active
FullyPassed(lg) ==
    /\ \E i \in DOMAIN lg : lg[i].op = "push" /\ lg[i].res = "ok"
    /\ \E i \in DOMAIN lg : lg[i].op = "exec" /\ lg[i].res = "ok"
    /\ \E i \in DOMAIN lg : lg[i].op = "status" /\ lg[i].res = "active"

\* a run of _on_config_changed whose push adds to the file where it should
\* replace it
ReconcileAppending(out, redelivered) ==
    /\ status' = out.status
    /\ file' = IF FullyPassed(out.log) THEN file \o out.file ELSE out.file
    /\ routes' = out.routes
    /\ log' = out.log
    /\ handler' = "config_changed"
    /\ deferred' = IF redelivered /\ out.exc = ""
                   THEN deferred - 1 + Defers(out.log)
                   ELSE deferred + Defers(out.log)
    /\ failures' = <<>>
    /\ results' = <<>>
    /\ repeated' = (handler = "config_changed" /\ FullyPassed(log)
                                               /\ FullyPassed(out.log))
    /\ UNCHANGED <<config, can_connect, storage, multus>>

\* a run of _on_config_changed takes effect; redelivered says whether the
\* event is a deferred one coming back
Reconcile(out, redelivered) ==
    /\ status' = out.status
    /\ file' = out.file
    /\ routes' = out.routes
    /\ log' = out.log
    /\ handler' = "config_changed"
    /\ deferred' = IF redelivered /\ out.exc = ""
                   THEN deferred - 1 + Defers(out.log)
                   ELSE deferred + Defers(out.log)
    /\ failures' = <<>>
    /\ results' = <<>>
    /\ repeated' = (handler = "config_changed" /\ FullyPassed(log)
                                               /\ FullyPassed(out.log))
    /\ UNCHANGED <<config, can_connect, storage, multus>>

PushExceptions == {"", "PathError"}

ExecExceptions == {"", "ExecError", "ChangeError"}

\* a run that skips the write when the file already holds the content
PassSkippingUnchangedFile(pushExc, execExc) ==
    LET out == _on_config_changed(config, can_connect, storage, multus, file,
                                  routes, status, pushExc, execExc)
    IN  IF /\ \E i \in DOMAIN out.log : out.log[i].op = "push"
           /\ file = <<_render_config_file(config)>>
        THEN [out EXCEPT !.log = SelectSeq(out.log, LAMBDA e : e.op # "push")]
        ELSE out

\* a run of _on_config_changed in the current state
Pass(pushExc, execExc) ==
    _on_config_changed(config, can_connect, storage, multus, file, routes,
                       status, pushExc, execExc)

\* the run gets as far as the workload's side effects
ReachesSideEffects == Pass("", "").status = ActiveStatus

\* a config-changed event is dispatched to _on_config_changed
ConfigChanged ==
    /\ deferred < MaxDeferred
    /\ \E pushExc \in IF ReachesSideEffects THEN PushExceptions ELSE {""},
          execExc \in IF ReachesSideEffects THEN ExecExceptions ELSE {""} :
         Reconcile(Pass(pushExc, execExc), FALSE)

\* a deferred config-changed event is dispatched again
Redeliver ==
    /\ deferred > 0
    /\ \E pushExc \in IF ReachesSideEffects THEN PushExceptions ELSE {""},
          execExc \in IF ReachesSideEffects THEN ExecExceptions ELSE {""} :
         Reconcile(Pass(pushExc, execExc), TRUE)

\* a run of _on_start_simulation_action in the current state takes effect
Simulate(proc) ==
    LET out == _on_start_simulation_action(can_connect, storage, file, proc)
    IN  /\ log' = out.log
        /\ failures' = out.failures
        /\ results' = out.results
        /\ handler' = "start_simulation"
        /\ repeated' = FALSE
        /\ UNCHANGED <<config, can_connect, storage, multus, file, routes,
                       status, deferred>>

\* the action gets as far as running the simulation command
RunsCommand == can_connect /\ _config_file_is_written(storage, file)

\* the start-simulation action is dispatched to _on_start_simulation_action
StartSimulation ==
    \E proc \in IF RunsCommand THEN ExecOutcomes ELSE {NoProcess} :
        Simulate(proc)

\* the workload container comes up or goes away
ContainerChange ==
    /\ can_connect' = ~can_connect
    /\ UNCHANGED <<config, storage, multus, file, routes, status, deferred,
                   handler, log, failures, results, repeated>>

\* the storage is attached or detached
StorageChange ==
    /\ storage' = ~storage
    /\ UNCHANGED <<config, can_connect, multus, file, routes, status, deferred,
                   handler, log, failures, results, repeated>>

\* the secondary network attachment becomes ready or stops being so
MultusChange ==
    /\ multus' = ~multus
    /\ UNCHANGED <<config, can_connect, storage, file, routes, status, deferred,
                   handler, log, failures, results, repeated>>

Next ==
    \/ ConfigChanged
    \/ Redeliver
    \/ StartSimulation
    \/ ContainerChange
    \/ StorageChange
    \/ MultusChange

Spec == Init /\ [][Next]_vars

\* The same, where a config-changed event the handler deferred is dispatched
\* again in the end: the framework dispatches the deferred events at the
\* next event of the unit. Nothing promises a new config-changed event, an
\* action or a change of the workload.
LiveSpec == Init /\ [][Next]_vars /\ WF_vars(Redeliver)

-----------------------------------------------------------------------------
(* What the claims speak of *)

\* A step that is a run of _on_config_changed. Of the steps that change the
\* state, those of ConfigChanged and Redeliver are the ones that end with
\* handler = "config_changed" and leave the workload's answers alone: the
\* action's steps end with handler = "start_simulation" and every other
\* step changes one of the answers.
PassStep ==
    /\ handler' = "config_changed"
    /\ UNCHANGED <<can_connect, storage, multus>>

\* a step that is a run of _on_start_simulation_action
ActionStep ==
    /\ handler' = "start_simulation"
    /\ UNCHANGED <<can_connect, storage, multus>>

\* the number of steps op in the run recorded in lg
Count(lg, op) == Len(SelectSeq(lg, LAMBDA e : e.op = op))

\* the run recorded in lg took step op
Did(lg, op) == \E i \in DOMAIN lg : lg[i].op = op

\* the steps of lg whose operation is in ops, in order
StepsAmong(lg, ops) ==
    LET kept == SelectSeq(lg, LAMBDA e : e.op \in ops)
    IN  [i \in DOMAIN kept |-> kept[i].op]

\* an option is missing: unset, or the empty text
Missing(v) == v = None \/ v = StrV(<<>>)

\* a value is an integer, or text that reads as one
ParsesAsInteger(v) ==
    \/ v.t = "int"
    \/ /\ v.t = "str"
       /\ LET body == IF v.s # <<>> /\ v.s[1] \in {"-", "+"} THEN Tail(v.s) ELSE v.s
          IN  /\ body # <<>>
              /\ \A i \in DOMAIN body :
                   body[i] \in {"0", "1", "2", "3", "4", "5", "6", "7", "8", "9"}

\* every option of cfg is set, not empty and, where an integer, reads as one
ParamsValid(cfg) ==
    \A p \in Params :
        /\ ~Missing(cfg[p])
        /\ p \in IntParams => ParsesAsInteger(cfg[p])

\* the four gate checks, in the order of the code
GateOrder == <<"_get_invalid_configs", "can_connect", "exists", "is_ready">>

GateChecks == {GateOrder[i] : i \in DOMAIN GateOrder}

-----------------------------------------------------------------------------
(* C1 *)

\* C1: a run of _on_config_changed writes the configuration file or runs the
\* route command (or changes the file or the routes) only from a state in
\* which every option is valid, the container is reachable, the storage path
\* exists and Multus is ready; in any other state it does neither.
C1_SideEffectsOnlyAfterAllGates ==
    [][PassStep =>
         ( (\/ Did(log', "push")
            \/ Did(log', "exec")
            \/ file' # file
            \/ routes' # routes)
           => (ParamsValid(config) /\ can_connect /\ storage /\ multus) )]_vars

\* a run that passed every gate and performed both side effects
C1_Witness ==
    /\ handler = "config_changed"
    /\ Did(log, "push")
    /\ Did(log, "exec")
    /\ file = <<_render_config_file(config)>>
    /\ routes # {}

-----------------------------------------------------------------------------
(* C2 *)

\* C2: a run of _on_config_changed asks the gate checks in the order
\* parameters, container, storage, Multus and stops asking at the first one
\* that fails; the status it sets is that check's: Blocked "Configurations
\* are invalid: <names>", Waiting "Waiting for container to be ready",
\* Waiting "Waiting for storage to be attached" or Waiting "Waiting for
\* Multus to be ready"; this for every combination of the checks' answers.
C2_FirstFailingGateDecides ==
    [][PassStep =>
         LET asked == StepsAmong(log', GateChecks)
             n == Len(asked)
             checked == _get_invalid_configs(config)
         IN  /\ n >= 1
             /\ asked = SubSeq(GateOrder, 1, n)
             /\ checked.exc # "" => n = 1
             /\ checked.exc = "" =>
                  IF checked.val # <<>>
                  THEN /\ n = 1
                       /\ status' = BlockedStatus(<<"Configurations are invalid: ">>
                                                  \o checked.val)
                  ELSE IF ~can_connect
                  THEN /\ n = 2
                       /\ status' = WaitingStatus(<<"Waiting for container to be ready">>)
                  ELSE IF ~storage
                  THEN /\ n = 3
                       /\ status' = WaitingStatus(<<"Waiting for storage to be attached">>)
                  ELSE IF ~multus
                  THEN /\ n = 4
                       /\ status' = WaitingStatus(<<"Waiting for Multus to be ready">>)
                  ELSE n = 4]_vars

\* a run in which three checks passed and the fourth decided
C2_Witness ==
    /\ handler = "config_changed"
    /\ status = WaitingStatus(<<"Waiting for Multus to be ready">>)
    /\ StepsAmong(log, GateChecks) = GateOrder

-----------------------------------------------------------------------------
(* C3 *)

\* the missing options of cfg, in declaration order
MissingNames(cfg) == SelectSeq(ParamNames, LAMBDA p : Missing(cfg[p]))

\* C3: whenever one or more of the 15 options is missing (unset or empty),
\* _get_invalid_configs returns exactly the missing names, in declaration
\* order, and a run of _on_config_changed ends with status Blocked whose
\* message holds all of them.
C3_MissingNamesReported ==
    (handler = "config_changed" /\ MissingNames(config) # <<>>) =>
        /\ _get_invalid_configs(config) = Returned(MissingNames(config))
        /\ status.name = "blocked"
        /\ \A i \in DOMAIN MissingNames(config) :
             \E j \in DOMAIN status.message :
                 status.message[j] = MissingNames(config)[i]

-----------------------------------------------------------------------------
(* C4 *)

\* the options the validation rule calls invalid, in declaration order
InvalidNames(cfg) ==
    SelectSeq(ParamNames,
              LAMBDA p : \/ Missing(cfg[p])
                         \/ p \in IntParams /\ ~ParsesAsInteger(cfg[p]))

\* C4: an option is reported invalid exactly if it is unset, empty or, for
\* amf-port and sst, does not read as an integer: a run of
\* _on_config_changed raises nothing in the validation, reports exactly
\* those options and, if there is one, ends Blocked naming them.
C4_InvalidIffMissingOrNotInteger ==
    handler = "config_changed" =>
        /\ log[1].res \in {"valid", "invalid"}
        /\ _get_invalid_configs(config) = Returned(InvalidNames(config))
        /\ InvalidNames(config) # <<>> =>
             status = BlockedStatus(<<"Configurations are invalid: ">>
                                    \o InvalidNames(config))

-----------------------------------------------------------------------------
(* C5 *)

\* C5: a run of _on_config_changed calls event.defer() once if its first
\* failing check is the container's or the storage's, and not at all
\* otherwise: not when it ends Blocked, not when it ends Waiting for Multus,
\* not when it ends Active; and the event then waits for redelivery.
C5_DefersOnlyForContainerOrStorage ==
    [][PassStep =>
         LET checked == _get_invalid_configs(config)
             awaited == checked = Returned(<<>>) /\ (~can_connect \/ ~storage)
             calls == Count(log', "defer")
         IN  /\ calls = IF awaited THEN 1 ELSE 0
             /\ deferred' \in {deferred + calls, deferred - 1 + calls}
             /\ status'.name \in {"blocked", "active"} => deferred' <= deferred
             /\ status' = WaitingStatus(<<"Waiting for Multus to be ready">>)
                  => deferred' <= deferred]_vars

\* a run that found the storage missing and deferred the event
C5_Witness ==
    /\ handler = "config_changed"
    /\ status = WaitingStatus(<<"Waiting for storage to be attached">>)
    /\ Count(log, "defer") = 1
    /\ deferred = 1

-----------------------------------------------------------------------------
(* C6 *)

\* no option is reported invalid and the three readiness checks hold
GatesHold ==
    /\ _get_invalid_configs(config) = Returned(<<>>)
    /\ can_connect
    /\ storage
    /\ multus

\* the side effects and status changes of the run recorded in lg, in order
Effects(lg) == SelectSeq(lg, LAMBDA e : e.op \in {"push", "exec", "status"})

\* ip route replace <upf-ip-address> via <upf-gateway>, word by word
ExpectedRouteCommand ==
    << (<<"ip">>), (<<"route">>), (<<"replace">>), config["upf-ip-address"].s,
       (<<"via">>), config["upf-gateway"].s >>

\* C6, as the claim states it: when no option is invalid, the container is
\* reachable, the storage path exists and Multus is ready, a run performs
\* exactly one write to /etc/gnbsim/gnb.conf, then exactly one route command,
\* then sets status Active.
C6_AsStated ==
    [][(PassStep /\ GatesHold) =>
         LET eff == Effects(log')
         IN  /\ [i \in DOMAIN eff |-> eff[i].op] = <<"push", "exec", "status">>
             /\ eff[1].arg = <<(<<"/etc/gnbsim", "/", "gnb.conf">>)>>
             /\ eff[2].arg = ExpectedRouteCommand
             /\ status' = ActiveStatus]_vars

\* C6, amended: under the same conditions a run performs exactly one write
\* to /etc/gnbsim/gnb.conf, then, if the write did not raise, exactly one
\* "ip route replace <upf-ip-address> via <upf-gateway>" with the configured
\* values, then, if the command did not raise either, sets status Active; a
\* run that raised leaves the status as it was, and no run sets Active
\* before both side effects have completed.
C6_WriteThenRouteThenActive ==
    [][PassStep =>
         LET eff == Effects(log')
         IN  /\ GatesHold =>
                  /\ Len(eff) >= 1
                  /\ eff[1].op = "push"
                  /\ eff[1].arg = <<(<<"/etc/gnbsim", "/", "gnb.conf">>)>>
                  /\ eff[1].res # "ok" =>
                       /\ Len(eff) = 1
                       /\ UNCHANGED <<status, file, routes>>
                  /\ eff[1].res = "ok" =>
                       /\ Len(eff) >= 2
                       /\ eff[2].op = "exec"
                       /\ eff[2].arg = ExpectedRouteCommand
                       /\ file' = <<_render_config_file(config)>>
                       /\ eff[2].res # "ok" =>
                            /\ Len(eff) = 2
                            /\ UNCHANGED <<status, routes>>
                       /\ eff[2].res = "ok" =>
                            /\ Len(eff) = 3
                            /\ eff[3] = Entry("status", <<>>, "active")
                            /\ status' = ActiveStatus
                            /\ <<config["upf-ip-address"].s,
                                 config["upf-gateway"].s>> \in routes'
             /\ \A i \in DOMAIN eff :
                  (eff[i].op = "status" /\ eff[i].res = "active") =>
                      /\ i = 3
                      /\ eff[1].op = "push" /\ eff[1].res = "ok"
                      /\ eff[2].op = "exec" /\ eff[2].res = "ok"
             /\ (status' = ActiveStatus /\ status # ActiveStatus) =>
                  Did(log', "status")]_vars

\* a run that wrote the file, replaced the route and went Active
C6_Witness ==
    /\ handler = "config_changed"
    /\ [i \in DOMAIN Effects(log) |-> Effects(log)[i].res] = <<"ok", "ok", "active">>
    /\ status = ActiveStatus
    /\ routes = {<<config["upf-ip-address"].s, config["upf-gateway"].s>>}

-----------------------------------------------------------------------------
(* C7 *)

\* the operations of the run recorded in lg, in order
OpsOf(lg) == [i \in DOMAIN lg |-> lg[i].op]

\* the configuration file is there: its directory is, and it has a content
ArtifactExists == storage /\ file # <<>>

\* C7: the action checks the container first and the file second; with the
\* container unreachable it fails "Container is not ready" without looking
\* for the file or running anything; with the file missing it fails "Config
\* file is not written" without running anything; it runs the simulation
\* command only when the container is reachable and the file exists.
C7_ActionPreconditionsInOrder ==
    [][ActionStep =>
         /\ ~can_connect =>
              /\ OpsOf(log') = <<"can_connect", "fail">>
              /\ failures' = <<(<<"Container is not ready">>)>>
         /\ (can_connect /\ ~ArtifactExists) =>
              /\ OpsOf(log') = <<"can_connect", "exists", "fail">>
              /\ failures' = <<(<<"Config file is not written">>)>>
         /\ Did(log', "exec") =>
              /\ can_connect
              /\ ArtifactExists
              /\ SubSeq(OpsOf(log'), 1, 3) = <<"can_connect", "exists", "exec">>
              /\ log'[3].arg = << (<<"/gnbsim/bin/gnbsim">>), (<<"--cfg">>),
                                  (<<"/etc/gnbsim", "/", "gnb.conf">>) >>]_vars

\* the action invoked before the file is written
C7_Witness ==
    /\ handler = "start_simulation"
    /\ can_connect
    /\ file = <<>>
    /\ failures = <<(<<"Config file is not written">>)>>
    /\ ~Did(log, "exec")

-----------------------------------------------------------------------------
(* C8 *)

\* the text holds "Profile Status: PASS"
HasPassMarker(text) ==
    \E i \in 1..(Len(text) - 1) :
        text[i] = "Profile Status: " /\ text[i + 1] = "PASS"

\* C8: when the simulation command returns, the action looks at stderr only:
\* with stderr empty it fails "No output in simulation" and sets no result;
\* with stderr holding "Profile Status: PASS" it sets success "true"; with
\* any other stderr it sets success "false"; whatever stdout is.
C8_VerdictFromStderrOnly ==
    [][(ActionStep /\ can_connect /\ ArtifactExists) =>
         \A proc \in ExecOutcomes :
             (proc.kind = "output" /\ Simulate(proc)) =>
                 LET empty == proc.stderr = None \/ proc.stderr = StrV(<<>>)
                     passed == ~empty /\ HasPassMarker(proc.stderr.s)
                 IN  /\ empty =>
                          /\ failures' = <<(<<"No output in simulation">>)>>
                          /\ results' = <<>>
                     /\ ~empty =>
                          /\ failures' = <<>>
                          /\ Len(results') = 1
                          /\ results'[1].success = IF passed THEN "true" ELSE "false"]_vars

\* a simulation whose stderr held the marker
C8_Witness ==
    /\ handler = "start_simulation"
    /\ Did(log, "exec")
    /\ Len(results) = 1
    /\ results[1].success = "true"

-----------------------------------------------------------------------------
(* C9 *)

\* C9: every run of the action ends with exactly one of a result record and
\* a failure message, whatever its steps did: container unreachable, file
\* missing, command returning output, command returning an empty stderr,
\* ExecError, ChangeError.
C9_ExactlyOneResolution ==
    handler = "start_simulation" => Len(failures) + Len(results) = 1

\* a run whose command raised ChangeError
C9_Witness ==
    /\ handler = "start_simulation"
    /\ \E i \in DOMAIN log : log[i].op = "exec" /\ log[i].res = "ChangeError"
    /\ Len(failures) = 1
    /\ results = <<>>

-----------------------------------------------------------------------------
(* C10 *)

\* C10: a run of the action leaves the status, the configuration file and
\* the routes as they were, and runs the simulation command exactly when
\* the container is reachable and the file exists, whatever the status is.
C10_ActionIndependentOfStatus ==
    [][ActionStep =>
         /\ UNCHANGED <<status, file, routes>>
         /\ Did(log', "exec") <=> (can_connect /\ ArtifactExists)]_vars

\* the simulation run while the unit was Blocked
C10_Witness ==
    /\ handler = "start_simulation"
    /\ status.name = "blocked"
    /\ Did(log, "exec")
    /\ Len(results) = 1

-----------------------------------------------------------------------------
(* C11 *)

\* the last step of the run recorded in lg
LastStep(lg) == lg[Len(lg)]

\* C11: when the write of the configuration file raises, the run of
\* _on_config_changed ends at the write: no route command, no status set, no
\* defer, and the status, the file, the routes and the deferred events are
\* as before the run. When the route command raises, the run ends at the
\* command, after the write: no status set, no defer, and the status, the
\* routes and the deferred events are as before the run. Either happens only
\* after the four gate checks passed.
C11_FailureAbortsThePass ==
    [][PassStep =>
         /\ (\E i \in DOMAIN log' : log'[i].op = "push" /\ log'[i].res # "ok") =>
              /\ GatesHold
              /\ LastStep(log').op = "push"
              /\ Count(log', "push") = 1
              /\ ~Did(log', "exec")
              /\ ~Did(log', "status")
              /\ ~Did(log', "defer")
              /\ UNCHANGED <<status, file, routes, deferred>>
         /\ (\E i \in DOMAIN log' : log'[i].op = "exec" /\ log'[i].res # "ok") =>
              /\ GatesHold
              /\ LastStep(log').op = "exec"
              /\ Count(log', "exec") = 1
              /\ OpsOf(Effects(log')) = <<"push", "exec">>
              /\ ~Did(log', "defer")
              /\ file' = <<_render_config_file(config)>>
              /\ UNCHANGED <<status, routes, deferred>>]_vars

\* a run whose write raised, leaving the unit Waiting as an earlier run set it
C11_Witness ==
    /\ handler = "config_changed"
    /\ LastStep(log) = Entry("push", <<ConfigFilePath>>, "PathError")
    /\ GatesHold
    /\ status = WaitingStatus(<<"Waiting for Multus to be ready">>)
    /\ routes = {}

-----------------------------------------------------------------------------
(* C12 *)

\* the status assignments of the run recorded in lg, in order
StatusSteps(lg) == SelectSeq(lg, LAMBDA e : e.op = "status")

\* C12: every run of _on_config_changed overwrites the status: the run
\* assigns self.unit.status exactly once, and the status after the run is
\* the one the run assigned, never the one an earlier run left.
C12_StatusOverwrittenEveryPass ==
    [][PassStep =>
         /\ Len(StatusSteps(log')) = 1
         /\ status'.name = StatusSteps(log')[1].res]_vars

-----------------------------------------------------------------------------
(* C13 *)

\* the side effects of the run recorded in lg, in order
SideEffects(lg) == SelectSeq(lg, LAMBDA e : e.op \in {"push", "exec", "defer"})

\* what step op of the run recorded in lg raised, "" if it did not raise
RaisedBy(lg, op) ==
    IF \E i \in DOMAIN lg : lg[i].op = op /\ lg[i].res # "ok"
    THEN (CHOOSE e \in {lg[i] : i \in DOMAIN lg} : e.op = op /\ e.res # "ok").res
    ELSE ""

\* the run of _on_config_changed on the current configuration and check
\* outcomes by a unit with no history: no file, no route, no status yet
FirstPass(pushExc, execExc) ==
    _on_config_changed(config, can_connect, storage, multus, <<>>, {},
                       UnknownStatus, pushExc, execExc)

\* C13, as the claim states it: the side effects (write, route, defer) and
\* the resulting status of a run are those of any other run on the same
\* configuration and the same check outcomes, in particular those of the run
\* a unit with no history makes, whatever the status was and whatever ran
\* before; and a run that passes every check performs the write.
C13_AsStated ==
    [][PassStep =>
         /\ SideEffects(log') = SideEffects(FirstPass("", "").log)
         /\ status' = FirstPass("", "").status
         /\ GatesHold => Did(log', "push")]_vars

\* C13, amended: the steps of a run are those of the run a unit with no
\* history makes on the same configuration, the same check outcomes and the
\* same outcomes of the write and the route command (done or raised),
\* whatever the status, the file and the routes were before; the resulting
\* status is the same too when the run assigns one, and is the status
\* before the run when it assigns none; a run that passes every check
\* attempts the write even when the file already holds the content.
C13_HistoryFree ==
    [][PassStep =>
         LET ref == FirstPass(RaisedBy(log', "push"), RaisedBy(log', "exec"))
         IN  /\ log' = ref.log
             /\ IF Did(log', "status")
                THEN status' = ref.status
                ELSE UNCHANGED status
             /\ GatesHold =>
                  /\ Did(log', "push")
                  /\ RaisedBy(log', "push") = "" =>
                        file' = <<_render_config_file(config)>>]_vars

\* a run that wrote the file again after an earlier run had written it and
\* replaced the route, and that kept the status of the run before it
C13_Witness ==
    /\ handler = "config_changed"
    /\ OpsOf(SideEffects(log)) = <<"push", "exec">>
    /\ RaisedBy(log, "push") = ""
    /\ RaisedBy(log, "exec") = "ExecError"
    /\ routes = {<<config["upf-ip-address"].s, config["upf-gateway"].s>>}
    /\ status = WaitingStatus(<<"Waiting for Multus to be ready">>)

-----------------------------------------------------------------------------
(* C14 *)

\* the route the configuration asks for
ConfiguredRoute == <<config["upf-ip-address"].s, config["upf-gateway"].s>>

-----------------------------------------------------------------------------
(* C15 *)

\* neither the write nor the route command of the last run raised
WorkloadCallsDone ==
    handler = "config_changed" =>
        RaisedBy(log, "push") = "" /\ RaisedBy(log, "exec") = ""

\* C15: when the configuration is valid throughout, the container, the
\* storage and Multus come to hold and keep holding, the write and the route
\* command never fail, a config-changed event has been handled and every
\* deferred config-changed event is dispatched again, the status becomes
\* Active in the end, with no event other than the deferred ones needed.
C15_EventuallyActive ==
    ( /\ []ParamsValid(config)
      /\ <>[](can_connect /\ storage /\ multus)
      /\ []WorkloadCallsDone
      /\ <>(handler = "config_changed") )
    => <>(status = ActiveStatus)

====
